---- MODULE Spec2Model ----
(***************************************************************************)
(* Model of search.py: the three tools web_search,                         *)
(* fetch_and_parse_webpage and deep_research, with the two transport       *)
(* helpers make_search_request and fetch_webpage_content.                  *)
(*                                                                         *)
(* Strings are modelled by what the code observes of them: the dictionary  *)
(* keys that are present, whether a text starts with "Error", lengths, and *)
(* the lists BeautifulSoup returns (headings, matching main elements,      *)
(* anchors) in document order.  Every returned string is a sequence of     *)
(* tagged lines, one per piece the code appends or joins.                  *)
(***************************************************************************)
EXTENDS Integers, Sequences, FiniteSets, TLC

\* ---------------------------------------------------------------- bounds
MaxDepth == 2
MaxNumResults == 3
MaxOrganic == 4
MaxHeadings == 2

\* ------------------------------------------------------ program constants
TextLimit == 10000
LinkLimit == 100
HeadingLimit == 10
SummaryLimit == 500
MinHeadingLen == 3
SummaryParagraphs == 3
OverviewExtra == 2

\* -------------------------------------------------------------- helpers
Min(a, b) == IF a <= b THEN a ELSE b

Max(a, b) == IF a >= b THEN a ELSE b

\* Python's  s[:n]
Prefix(s, n) ==
    IF n >= 0 THEN SubSeq(s, 1, Min(n, Len(s)))
    ELSE SubSeq(s, 1, Max(0, Len(s) + n))

RECURSIVE SumSeq(_)
SumSeq(s) == IF s = <<>> THEN 0 ELSE Head(s) + SumSeq(Tail(s))

RECURSIVE SelectTag(_, _)
\* soup.find_all(tag): the elements with that tag, in document order
SelectTag(hs, tag) ==
    IF hs = <<>> THEN <<>>
    ELSE IF Head(hs).tag = tag THEN <<Head(hs)>> \o SelectTag(Tail(hs), tag)
    ELSE SelectTag(Tail(hs), tag)

RECURSIVE MapSeq(_, _)
MapSeq(Op(_), s) == IF s = <<>> THEN <<>> ELSE <<Op(Head(s))>> \o MapSeq(Op, Tail(s))

SeqsUpTo(S, n) == UNION {[1..k -> S] : k \in 0..n}

\* ----------------------------------------------------- search responses
\* A missing dictionary key.
Absent == "<absent>"

\* dict.get(key, default)
Get(v, default) == IF v = Absent THEN default ELSE v

\* An entry of the provider's `organic` list: each key present or not.
OrganicResults ==
    [title : {"t1", Absent}, link : {"u1", Absent}, snippet : {"s1", Absent}]

\* The entries deep_research is exercised with.
ResearchResults ==
    { [title |-> "t1", link |-> "u1", snippet |-> "s1"],
      [title |-> Absent, link |-> Absent, snippet |-> Absent] }

\* A JSON object received with a 2xx status: its `error` key (a provider may
\* send one) and its `organic` key, each present or not.
JsonBodies(R) ==
    [error : {Absent, "provider message"}, hasOrganic : BOOLEAN, organic : SeqsUpTo(R, MaxOrganic)]

\* What the POST of make_search_request meets: an exception (network,
\* timeout, HTTP status via raise_for_status, undecodable body via json())
\* or a decoded JSON object.
SearchOutcomes(R) ==
    [raised : {TRUE}, cause : {"timeout", "http 403"}, body : {[error |-> Absent, hasOrganic |-> FALSE, organic |-> <<>>]}]
    \cup
    { [raised |-> FALSE, cause |-> Absent, body |-> b] :
        b \in {j \in JsonBodies(R) : j.hasOrganic \/ j.organic = <<>>} }

\* make_search_request: the dictionary handed to the tools.
make_search_request(o) ==
    IF o.raised
    THEN [error |-> o.cause, hasOrganic |-> FALSE, organic |-> <<>>]
    ELSE o.body

\* format_search_result
format_search_result(r) ==
    [kind |-> "block",
     title |-> Get(r.title, "No title"),
     url |-> Get(r.link, "No link"),
     snippet |-> Get(r.snippet, "No description available")]

RECURSIVE Join(_, _)
\* sep.join(parts), each part and each separator one line of the result
Join(parts, sep) ==
    IF parts = <<>> THEN <<>>
    ELSE IF Len(parts) = 1 THEN parts
    ELSE <<Head(parts), sep>> \o Join(Tail(parts), sep)

\* web_search, after the request: search_results is what make_search_request returned
web_search(search_results, num_results) ==
    IF search_results.error # Absent
    THEN << [kind |-> "search_error", msg |-> search_results.error] >>
    ELSE IF ~search_results.hasOrganic \/ search_results.organic = <<>>
    THEN << [kind |-> "no_results"] >>
    ELSE Join(MapSeq(format_search_result, Prefix(search_results.organic, num_results)),
              [kind |-> "delim"])

\* ---------------------------------------------------------------- pages
\* A page body as BeautifulSoup shows it once script and style elements are
\* removed: errPrefix is body.startswith("Error"), markupLen the length of
\* the body, textLen the length of soup.get_text with a one-character
\* separator, headings the h1/h2/h3 elements in document order with their
\* stripped text, mains the elements matched by the main-content selector
\* (each the lengths of the '\n'-separated segments of its text), links the
\* anchors with an href.
HeadingTags == <<"h1", "h2", "h3">>

HeadingTexts == {"FAQ", "Intro"}

Headings == [tag : {"h1", "h2", "h3"}, text : HeadingTexts]

ManyLinks == [k \in 1..(LinkLimit + 1) |-> [text |-> "next", href |-> "/p"]]

ManyHeadings == [k \in 1..(HeadingLimit + 1) |-> [tag |-> "h2", text |-> "Intro"]]

Pages ==
    { [errPrefix |-> e, markupLen |-> tl + extra, textLen |-> tl,
       headings |-> hs, mains |-> ms, links |-> ls] :
        e \in BOOLEAN, tl \in {0, 9, TextLimit, TextLimit + 1}, extra \in {0, 64},
        hs \in SeqsUpTo(Headings, MaxHeadings),
        ms \in {<<>>, << <<40>> >>, << <<TextLimit>>, <<5, 5>> >>},
        ls \in {<<>>, <<[text |-> "", href |-> "/a"], [text |-> "home", href |-> "/"]>>, ManyLinks} }

\* Bodies that can exist: text starting with "Error" has at least those five
\* characters, and a body with elements is longer than its text.
ValidPage(p) ==
    /\ p.errPrefix => p.textLen >= 5
    /\ (p.headings # <<>> \/ p.mains # <<>> \/ p.links # <<>>) => p.markupLen > p.textLen
    /\ (p.headings # <<>> \/ p.mains # <<>> \/ p.links # <<>>) => p.textLen > 0

\* The pages deep_research is exercised with.
ResearchPages ==
    { [errPrefix |-> FALSE, markupLen |-> 900, textLen |-> 700,
       headings |-> <<[tag |-> "h2", text |-> "Intro"], [tag |-> "h1", text |-> "FAQ"]>>,
       mains |-> << <<600>>, <<5>> >>, links |-> <<>>],
      [errPrefix |-> FALSE, markupLen |-> 9, textLen |-> 9,
       headings |-> <<>>, mains |-> <<>>, links |-> <<>>],
      [errPrefix |-> TRUE, markupLen |-> 9, textLen |-> 9,
       headings |-> <<>>, mains |-> <<>>, links |-> <<>>],
      [errPrefix |-> FALSE, markupLen |-> 400, textLen |-> 80,
       headings |-> ManyHeadings, mains |-> << <<5, 5, 5, 5>> >>, links |-> <<>>] }

\* What the GET of fetch_webpage_content meets: an exception (transport or
\* HTTP status) or a body.
FetchOutcomes(P) ==
    [ok : {FALSE}, cause : {"timeout", "http 404"}] \cup [ok : {TRUE}, page : P]

\* fetch_webpage_content: the string handed to the tools, either the
\* "Error fetching page: <cause>" message or response.text.
fetch_webpage_content(o) ==
    IF o.ok THEN [kind |-> "body", page |-> o.page]
    ELSE [kind |-> "fetch_error", cause |-> o.cause]

\* html_content.startswith("Error")
StartsWithError(html) ==
    IF html.kind = "fetch_error" THEN TRUE ELSE html.page.errPrefix

\* Length of the string fetch_webpage_content returned.
ContentLen(html) ==
    IF html.kind = "fetch_error" THEN 21 + Len(html.cause) ELSE html.page.markupLen

\* text[:10000] + "..." if len(text) > 10000 else text
Truncate(src, len) ==
    IF len > TextLimit
    THEN [kind |-> "text", src |-> src, take |-> TextLimit, ellipsis |-> TRUE]
    ELSE [kind |-> "text", src |-> src, take |-> len, ellipsis |-> FALSE]

\* Length of elem.get_text(...) for a matched main element.
ElemLen(segs) == SumSeq(segs) + Len(segs) - 1

\* "\n\n".join of the texts of the matched elements
MainContentLen(ms) == SumSeq(MapSeq(ElemLen, ms)) + 2 * (Len(ms) - 1)

Upper(tag) == CASE tag = "h1" -> "H1" [] tag = "h2" -> "H2" [] tag = "h3" -> "H3"

HeadingLine(h) == [kind |-> "heading", tag |-> Upper(h.tag), text |-> h.text]

\* for tag in ['h1', 'h2', 'h3']: for heading in soup.find_all(tag): ...
HeadingsByTag(hs) ==
    SelectTag(hs, HeadingTags[1]) \o SelectTag(hs, HeadingTags[2]) \o SelectTag(hs, HeadingTags[3])

ExtractHeadings(page) ==
    LET headings == MapSeq(HeadingLine, HeadingsByTag(page.headings))
    IN  IF headings # <<>> THEN headings ELSE << [kind |-> "no_headings"] >>

LinkLine(a) ==
    [kind |-> "link", text |-> IF a.text = "" THEN "[No text]" ELSE a.text, href |-> a.href]

ExtractLinks(page) ==
    LET links == MapSeq(LinkLine, page.links)
    IN  IF links # <<>> THEN Prefix(links, LinkLimit) ELSE << [kind |-> "no_links"] >>

ExtractMainContent(page) ==
    IF page.mains # <<>> THEN << Truncate("main_content", MainContentLen(page.mains)) >>
    ELSE << [kind |-> "no_main_content"] >>

ValidModes == {"full_text", "main_content", "headings", "links"}

Modes == ValidModes \cup {"bogus_mode"}

\* fetch_and_parse_webpage with the final else branch lost: an unknown
\* extraction_type falls through to the default full_text view.
fetch_and_parse_webpage_default_view(html_content, extraction_type) ==
    IF StartsWithError(html_content)
    THEN << [kind |-> "raw", content |-> html_content] >>
    ELSE IF extraction_type = "main_content"
    THEN ExtractMainContent(html_content.page)
    ELSE IF extraction_type = "headings"
    THEN ExtractHeadings(html_content.page)
    ELSE IF extraction_type = "links"
    THEN ExtractLinks(html_content.page)
    ELSE << Truncate("full_text", html_content.page.textLen) >>

\* fetch_and_parse_webpage, after the fetch: html_content is what
\* fetch_webpage_content returned
fetch_and_parse_webpage(html_content, extraction_type) ==
    IF StartsWithError(html_content)
    THEN << [kind |-> "raw", content |-> html_content] >>
    ELSE IF extraction_type = "full_text"
    THEN << Truncate("full_text", html_content.page.textLen) >>
    ELSE IF extraction_type = "main_content"
    THEN ExtractMainContent(html_content.page)
    ELSE IF extraction_type = "headings"
    THEN ExtractHeadings(html_content.page)
    ELSE IF extraction_type = "links"
    THEN ExtractLinks(html_content.page)
    ELSE << [kind |-> "invalid_mode", given |-> extraction_type, valid |-> ValidModes] >>

\* ------------------------------------------------------- deep_research
Topic == "topic"

\* The three overview lines of one result (i is the 0-based enumerate index).
OverviewEntry(idx, result) ==
    << [kind |-> "overview_title", rank |-> idx + 1, title |-> Get(result.title, "No title")],
       [kind |-> "overview_url", url |-> Get(result.link, "No link")],
       [kind |-> "overview_summary", snippet |-> Get(result.snippet, "No description")] >>

RECURSIVE OverviewFrom(_, _)
\* for i, result in enumerate(...): the entries of results from index idx on
OverviewFrom(idx, results) ==
    IF results = <<>> THEN <<>>
    ELSE OverviewEntry(idx, Head(results)) \o OverviewFrom(idx + 1, Tail(results))

\* The results listed in the overview.
OverviewResults(organic, depth) == Prefix(organic, depth + OverviewExtra)

RECURSIVE Reverse(_)
Reverse(q) == IF q = <<>> THEN <<>> ELSE Reverse(Tail(q)) \o <<Head(q)>>

\* The detailed analysis walking the explored results last-to-first.
DetailResults_reranked(organic, depth) == Reverse(Prefix(organic, depth))

\* The results explored in depth.
DetailResults(organic, depth) == Prefix(organic, depth)

\* research_report when the detailed-analysis loop is entered: title,
\* overview of the first depth + 2 results, header of the detailed part.
ReportStart(search_results, depth) ==
    << [kind |-> "report_title", topic |-> Topic], [kind |-> "overview_header"] >>
    \o OverviewFrom(0, OverviewResults(search_results.organic, depth))
    \o << [kind |-> "detail_header"] >>

RECURSIVE LongHeadings(_)
\* the headings whose text is non-empty and longer than three characters
LongHeadings(hs) ==
    IF hs = <<>> THEN <<>>
    ELSE IF Head(hs).text # "" /\ Len(Head(hs).text) > MinHeadingLen
    THEN << [kind |-> "key_point", text |-> Head(hs).text] >> \o LongHeadings(Tail(hs))
    ELSE LongHeadings(Tail(hs))

KeyPoints(page) ==
    LET headings == LongHeadings(HeadingsByTag(page.headings))
    IN  << [kind |-> "key_points_header"] >>
        \o (IF headings # <<>> THEN Prefix(headings, HeadingLimit)
            ELSE << [kind |-> "no_clear_headings"] >>)
        \o << [kind |-> "blank"] >>

\* " ".join(paragraphs[:3])[:500] + "..."  resp.  page_text[:500] + "..."
ContentSummary(page) ==
    IF page.mains # <<>>
    THEN LET paragraphs == Prefix(page.mains[1], SummaryParagraphs)
         IN  [kind |-> "summary", src |-> "main_element",
              take |-> Min(SummaryLimit, ElemLen(paragraphs)), ellipsis |-> TRUE]
    ELSE [kind |-> "summary", src |-> "page_text",
          take |-> Min(SummaryLimit, page.textLen), ellipsis |-> TRUE]

\* One pass of the detailed-analysis loop, html_content being what
\* fetch_webpage_content returned for the result's url.
SourceSection(idx, result, html_content) ==
    << [kind |-> "source_header", rank |-> idx + 1, title |-> Get(result.title, "No title")],
       [kind |-> "source_url", url |-> Get(result.link, "No link")] >>
    \o (IF StartsWithError(html_content)
        THEN << [kind |-> "no_access", content |-> html_content] >>
        ELSE KeyPoints(html_content.page)
             \o << [kind |-> "summary_header"], ContentSummary(html_content.page),
                   [kind |-> "separator"] >>)

\* The number the closing line prints.
ExploredCount(organic, depth) == depth

Footer(organic, depth) ==
    << [kind |-> "footer_header"],
       [kind |-> "footer", explored |-> ExploredCount(organic, depth), topic |-> Topic] >>

\* ---------------------------------------------------------------- state
VARIABLES
    pc,        \* "idle", "dive" (deep_research between two awaits), "done"
    tool,      \* the tool that was called
    arg,       \* its integer argument (num_results or depth), 0 if none
    mode,      \* extraction_type of fetch_and_parse_webpage
    search,    \* outcome of the search request
    fetches,   \* outcomes of the page fetches issued so far, in order
    urls,      \* urls of the page fetches issued so far, in order
    i,         \* deep_research: index of the detailed-analysis loop
    out        \* returned string (deep_research: research_report so far)

vars == <<pc, tool, arg, mode, search, fetches, urls, i, out>>

NoSearch == [raised |-> FALSE, cause |-> Absent, body |-> [error |-> Absent, hasOrganic |-> FALSE, organic |-> <<>>]]

Init ==
    /\ pc = "idle"
    /\ tool = "none"
    /\ arg = 0
    /\ mode = "none"
    /\ search = NoSearch
    /\ fetches = <<>>
    /\ urls = <<>>
    /\ i = 0
    /\ out = <<>>

WebSearch ==
    /\ pc = "idle"
    /\ \E n \in 1..MaxNumResults, o \in SearchOutcomes(OrganicResults) :
          /\ arg' = n
          /\ search' = o
          /\ out' = web_search(make_search_request(o), n)
    /\ tool' = "web_search"
    /\ pc' = "done"
    /\ UNCHANGED <<mode, fetches, urls, i>>

FetchAndParse ==
    /\ pc = "idle"
    /\ \E m \in Modes, o \in FetchOutcomes({p \in Pages : ValidPage(p)}) :
          /\ mode' = m
          /\ fetches' = <<o>>
          /\ out' = fetch_and_parse_webpage(fetch_webpage_content(o), m)
    /\ urls' = <<"url">>
    /\ tool' = "fetch_and_parse_webpage"
    /\ pc' = "done"
    /\ UNCHANGED <<arg, search, i>>

\* deep_research from the call to its first page fetch (or its return).
DeepResearchSearch ==
    /\ pc = "idle"
    /\ \E d \in 1..MaxDepth, o \in SearchOutcomes(ResearchResults) :
          LET search_results == make_search_request(o)
          IN  /\ arg' = d
              /\ search' = o
              /\ IF search_results.error # Absent
                 THEN /\ out' = << [kind |-> "search_error", msg |-> search_results.error] >>
                      /\ pc' = "done"
                 ELSE IF ~search_results.hasOrganic \/ search_results.organic = <<>>
                 THEN /\ out' = << [kind |-> "no_results"] >>
                      /\ pc' = "done"
                 ELSE /\ out' = ReportStart(search_results, d)
                      /\ pc' = "dive"
    /\ tool' = "deep_research"
    /\ i' = 0
    /\ UNCHANGED <<mode, fetches, urls>>

\* One pass of the detailed-analysis loop: header, fetch, then the
\* "could not access" line or the key points and the summary.
DeepResearchSource ==
    /\ pc = "dive"
    /\ i < Len(DetailResults(make_search_request(search).organic, arg))
    /\ \E o \in FetchOutcomes(ResearchPages) :
          LET result == DetailResults(make_search_request(search).organic, arg)[i + 1]
          IN  /\ fetches' = Append(fetches, o)
              /\ urls' = Append(urls, Get(result.link, "No link"))
              /\ out' = out \o SourceSection(i, result, fetch_webpage_content(o))
    /\ i' = i + 1
    /\ UNCHANGED <<pc, tool, arg, mode, search>>

\* The loop is exhausted: the conclusion is appended and the report returned.
DeepResearchFooter ==
    /\ pc = "dive"
    /\ i = Len(DetailResults(make_search_request(search).organic, arg))
    /\ out' = out \o Footer(make_search_request(search).organic, arg)
    /\ pc' = "done"
    /\ UNCHANGED <<tool, arg, mode, search, fetches, urls, i>>

Next ==
    \/ WebSearch
    \/ FetchAndParse
    \/ DeepResearchSearch
    \/ DeepResearchSource
    \/ DeepResearchFooter

\* The three tools share no state: any call may be the one that is made.
Spec == Init /\ [][Next]_vars

\* web_search alone.
NextWebSearch == WebSearch

SpecWebSearch == Init /\ [][NextWebSearch]_vars

\* fetch_and_parse_webpage alone.
NextFetchAndParse == FetchAndParse

SpecFetchAndParse == Init /\ [][NextFetchAndParse]_vars

\* deep_research alone, one step per await.
NextDeepResearch == DeepResearchSearch \/ DeepResearchSource \/ DeepResearchFooter

SpecDeepResearch == Init /\ [][NextDeepResearch]_vars

\* ------------------------------------------------ vocabulary of the claims
\* The provider's organic list as received (empty when the request raised).
Organic == search.body.organic

\* The provider answered and its answer carries at least one organic result.
HasOrganicResults == ~search.raised /\ search.body.hasOrganic /\ Len(Organic) >= 1

Returned(t) == tool = t /\ pc = "done"

\* deep_research got past the search: `out` is research_report.
IsReport == tool = "deep_research" /\ out # <<>> /\ out[1].kind = "report_title"

KindIdx(k) == {j \in 1..Len(out) : out[j].kind = k}

CountKind(k) == Cardinality(KindIdx(k))

\* The k-th smallest member of a set of indices.
Nth(S, k) == CHOOSE j \in S : Cardinality({x \in S : x < j}) = k - 1

\* The lines from the header of source k up to the next source header (or
\* up to the conclusion, or the end of the report so far).
SectionEnd(k) ==
    IF k < CountKind("source_header") THEN Nth(KindIdx("source_header"), k + 1) - 1
    ELSE IF KindIdx("footer_header") # {} THEN Nth(KindIdx("footer_header"), 1) - 1
    ELSE Len(out)

Section(k) == SubSeq(out, Nth(KindIdx("source_header"), k), SectionEnd(k))

SectionHas(k, kind) == \E j \in 1..Len(Section(k)) : Section(k)[j].kind = kind

\* Length in characters of a returned single-line result.
OutLen(line) ==
    IF line.kind = "text" THEN line.take + (IF line.ellipsis THEN 3 ELSE 0)
    ELSE IF line.kind = "raw" THEN ContentLen(line.content)
    ELSE 0

\* ------------------------------------------------------------------ claims

\* C1: for every depth >= 1 and every search response with n >= 1 organic
\* results, what deep_research returns has exactly min(depth, n) detailed
\* Source sections and exactly min(depth + 2, n) numbered overview entries,
\* hence at least as many overview entries as detailed sections.
C1_SectionCounts ==
    (Returned("deep_research") /\ HasOrganicResults) =>
        /\ CountKind("source_header") = Min(arg, Len(Organic))
        /\ CountKind("overview_title") = Min(arg + 2, Len(Organic))
        /\ CountKind("overview_title") >= CountKind("source_header")

\* C2: once deep_research is past the search, page-fetch failures never end
\* it early: when it returns, one fetch was issued for each of the first
\* depth results, every source fetched successfully after a failed one has
\* its key-points and summary blocks, and the report ends with the
\* research-summary footer.
C2_NoEarlyExit ==
    (Returned("deep_research") /\ IsReport) =>
        /\ Len(fetches) = Min(arg, Len(Organic))
        /\ CountKind("source_header") = Len(fetches)
        /\ \A k \in 1..Len(fetches) :
              (fetches[k].ok /\ \E j \in 1..(k - 1) : ~fetches[j].ok) =>
                  /\ SectionHas(k, "key_points_header")
                  /\ SectionHas(k, "summary_header")
                  /\ SectionHas(k, "summary")
        /\ out[Len(out)].kind = "footer"

\* C3: web_search and deep_research return the 'Error performing search'
\* line exactly when the request itself failed, and the 'No results found'
\* line for every received response without an organic key or with an empty
\* organic list, whatever else it carries; in both cases nothing is fetched
\* and nothing else is output.
C3_ErrorVsNoResults ==
    (tool \in {"web_search", "deep_research"}) =>
        /\ (out[1].kind = "search_error") <=> search.raised
        /\ (~search.raised /\ (~search.body.hasOrganic \/ Organic = <<>>)) =>
              out = << [kind |-> "no_results"] >>
        /\ (search.raised \/ ~search.body.hasOrganic \/ Organic = <<>>) =>
              (Len(out) = 1 /\ fetches = <<>> /\ pc = "done")

\* C4: the 'headings' extraction emits the h1, h2 and h3 headings of the
\* page in document order, across heading levels.
C4_HeadingsInDocumentOrder ==
    (Returned("fetch_and_parse_webpage") /\ mode = "headings" /\ fetches[1].ok
        /\ ~fetches[1].page.errPrefix /\ fetches[1].page.headings # <<>>) =>
        /\ Len(out) = Len(fetches[1].page.headings)
        /\ \A k \in 1..Len(out) :
              /\ out[k].kind = "heading"
              /\ out[k].text = fetches[1].page.headings[k].text
              /\ out[k].tag = Upper(fetches[1].page.headings[k].tag)

InvalidModeLine(m) ==
    [kind |-> "invalid_mode", given |-> m,
     valid |-> {"full_text", "main_content", "headings", "links"}]

Placeholder(v, default) == IF v = "<absent>" THEN default ELSE v

\* C6: for every num_results >= 1 and every provider response with n >= 1
\* organic results, web_search returns exactly min(num_results, n) result
\* blocks in provider order with min(num_results, n) - 1 '---' delimiters
\* between them, a missing title, link or snippet shown by its placeholder.
C6_WebSearchBlocks ==
    (Returned("web_search") /\ HasOrganicResults) =>
        LET m == Min(arg, Len(Organic))
        IN  /\ Len(out) = 2 * m - 1
            /\ \A k \in 1..m :
                  out[2 * k - 1] =
                      [kind |-> "block",
                       title |-> Placeholder(Organic[k].title, "No title"),
                       url |-> Placeholder(Organic[k].link, "No link"),
                       snippet |-> Placeholder(Organic[k].snippet, "No description available")]
            /\ \A k \in 1..(m - 1) : out[2 * k] = [kind |-> "delim"]

\* C7: for every successfully fetched markup the 'full_text' extraction
\* returns at most 10,003 characters: the page text unchanged when it has at
\* most 10,000 characters, otherwise its first 10,000 characters and '...'.
C7_FullTextBounded ==
    (Returned("fetch_and_parse_webpage") /\ mode = "full_text" /\ fetches[1].ok) =>
        /\ Len(out) = 1
        /\ OutLen(out[1]) <= 10003
        /\ fetches[1].page.textLen <= 10000 => OutLen(out[1]) = fetches[1].page.textLen
        /\ fetches[1].page.textLen > 10000 =>
              (out[1].kind = "text" /\ out[1].take = 10000 /\ out[1].ellipsis)

\* The state part of C8: in every report of deep_research the overview entries and the
\* detailed sections are in the provider's rank order (entry k and Source k
\* both describe the k-th organic result), the page fetches are issued one
\* at a time in that order, and the blocks of source k (the access-failure
\* line, or key points and summary, made from the k-th fetch) lie between
\* the header of source k and the header of source k + 1.
C8_RankOrderState ==
    IsReport =>
        /\ \A k \in 1..CountKind("overview_title") :
              LET j == Nth(KindIdx("overview_title"), k)
              IN  /\ out[j].rank = k
                  /\ out[j].title = Placeholder(Organic[k].title, "No title")
                  /\ out[j + 1] = [kind |-> "overview_url",
                                   url |-> Placeholder(Organic[k].link, "No link")]
                  /\ out[j + 2] = [kind |-> "overview_summary",
                                   snippet |-> Placeholder(Organic[k].snippet, "No description")]
        /\ \A j \in KindIdx("overview_title") : j < Nth(KindIdx("detail_header"), 1)
        /\ CountKind("source_header") = Len(fetches)
        /\ Len(urls) = Len(fetches)
        /\ \A k \in 1..Len(fetches) :
              LET sec == Section(k)
                  blocks == SubSeq(sec, 3, Len(sec))
              IN  /\ sec[1] = [kind |-> "source_header", rank |-> k,
                               title |-> Placeholder(Organic[k].title, "No title")]
                  /\ sec[2] = [kind |-> "source_url",
                               url |-> Placeholder(Organic[k].link, "No link")]
                  /\ urls[k] = Placeholder(Organic[k].link, "No link")
                  /\ Len(blocks) >= 1
                  /\ IF blocks[1].kind = "no_access"
                     THEN /\ Len(blocks) = 1
                          /\ blocks[1].content = fetch_webpage_content(fetches[k])
                     ELSE /\ fetches[k].ok
                          /\ blocks[1].kind = "key_points_header"
                          /\ blocks[Len(blocks)].kind = "separator"
                          /\ blocks[Len(blocks) - 1] = ContentSummary(fetches[k].page)
                          /\ blocks[Len(blocks) - 2].kind = "summary_header"
                          /\ \A j \in 2..(Len(blocks) - 4) :
                                /\ blocks[j].kind \in {"key_point", "no_clear_headings"}
                                /\ blocks[j].kind = "key_point" =>
                                      \E h \in 1..Len(fetches[k].page.headings) :
                                          fetches[k].page.headings[h].text = blocks[j].text
        /\ \A j \in 1..Len(out) :
              out[j].kind \in {"no_access", "key_points_header", "key_point", "no_clear_headings",
                               "summary_header", "summary", "separator"} =>
                  \E k \in 1..Len(fetches) :
                      Nth(KindIdx("source_header"), k) < j /\ j <= SectionEnd(k)

\* C8 in full: the rank order holds in every state of every run, and every
\* step of deep_research issues at most one page fetch, for the next result
\* in rank order.
C8_RankOrder ==
    /\ []C8_RankOrderState
    /\ [][tool' = "deep_research" =>
            \/ (fetches' = fetches /\ urls' = urls)
            \/ \E o \in FetchOutcomes(ResearchPages) :
                  /\ fetches' = Append(fetches, o)
                  /\ urls' = Append(urls, Placeholder(Organic'[Len(fetches) + 1].link, "No link"))]_vars

\* A finished report over two different results whose first page could not
\* be fetched and whose second page was fetched and summarised.
C8_Witness ==
    /\ Returned("deep_research") /\ IsReport
    /\ Len(fetches) = 2
    /\ Organic[1] # Organic[2]
    /\ ~fetches[1].ok
    /\ fetches[2].ok /\ ~fetches[2].page.errPrefix /\ fetches[2].page.headings # <<>>
    /\ SectionHas(1, "no_access") /\ SectionHas(2, "summary")
    /\ CountKind("overview_title") > CountKind("source_header")

\* C9: the number printed by the closing summary line equals the number of
\* detailed Source sections of the report, also when the provider returned
\* fewer results than depth.
C9_FooterCount ==
    (Returned("deep_research") /\ IsReport) =>
        out[Len(out)].explored = CountKind("source_header")

\* C10: a fetch outcome is consumed as a tagged value: deep_research writes
\* the 'Could not access this page' line for a source, and
\* fetch_and_parse_webpage returns the fetch error instead of an extraction
\* view, exactly when the fetch of that page failed; a fetched page is
\* always parsed and extracted, whatever its body begins with.
C10_TaggedFetchOutcome ==
    /\ IsReport => \A k \in 1..Len(fetches) : SectionHas(k, "no_access") <=> ~fetches[k].ok
    /\ Returned("fetch_and_parse_webpage") => ((out[1].kind = "raw") <=> ~fetches[1].ok)

\* ------------------------------------------- what holds beside the defects
\* No decoded response carried an `error` key of its own.
NoProviderErrorKey == search.raised \/ search.body.error = "<absent>"

\* No fetched body began with "Error".
NoErrorPrefixedBody == \A k \in 1..Len(fetches) : fetches[k].ok => ~fetches[k].page.errPrefix

\* The counts of C1 for every response that carries no `error` key.
SectionCounts_NoErrorKey == NoProviderErrorKey => C1_SectionCounts

\* The statement of C2 for every run in which no fetched body begins with
\* "Error".
NoEarlyExit_NoErrorPrefix == NoErrorPrefixedBody => C2_NoEarlyExit

\* The blocks of C6 for every response that carries no `error` key.
WebSearchBlocks_NoErrorKey == NoProviderErrorKey => C6_WebSearchBlocks

\* The bound of C7 for every fetched body that does not begin with "Error".
FullTextBounded_NoErrorPrefix == NoErrorPrefixedBody => C7_FullTextBounded
====
